---------------------------- MODULE Spec2Model ----------------------------
(***************************************************************************)
(* Task/document lifecycle of nlpipe: TaskManager (Tasks/TaskManager.py)   *)
(* on top of the peewee tables Task and Docs and of the file store         *)
(* Storage/FileSystemStorage.py, plus the identity hash of Utils/utils.py. *)
(*                                                                         *)
(* Strings are sequences of one-character strings, so that len(),          *)
(* startswith() and concatenation are computed as the code computes them.  *)
(***************************************************************************)
EXTENDS Integers, Sequences, FiniteSets, TLC

VARIABLES Task,        \* rows of table Task, in id order: id = index
          Docs,        \* rows of table Docs, in rowid order
          files,       \* the file store: path -> text written
          result_dir,  \* FileSystemStorage.result_dir, fixed at construction
          frames,      \* per caller: the call in progress, or the last return
          hist,        \* history of the calls (observed, never read by the code)
          gi,          \* inputs and outputs of two get_id evaluations
          worker,      \* Workers/worker.py: where Worker.run is, and its locals
          resp         \* the last answer of the REST server or of its client

vars == <<Task, Docs, files, result_dir, frames, hist, gi, worker, resp>>

-----------------------------------------------------------------------------
(* Bounds and input sets *)

MaxTasks == 2          \* rows of table Task a run may insert

Procs == {"p1", "p2"}  \* concurrent callers (request threads, workers)
SeqProc == "p1"        \* the one caller of the sequential specification

IdLen == 34            \* len("0x") + len(md5 hexdigest)
DigestLen == 32        \* length of hashlib.md5().hexdigest()

None == <<"<None>">>   \* Python None where a string is expected
NoTask == 0            \* Python None where a task id is expected

\* tool names
Tool_upper == <<"u", "p">>
Tool_test_upper == <<"t", "_", "u", "p">>
Tool_alpino == <<"a", "l">>
Tools == {Tool_upper, Tool_alpino}

\* document texts
Doc_x == <<"x">>
Doc_y == <<"y">>
Doc_x_t == <<"x", "t", "_">>

\* what a tool's process() returns, and str(e) of what it raises
Results == {<<"R">>}
Errors == {<<"!">>}

STATUS == {"PENDING", "STARTED", "DONE", "ERROR"}
Str_ERROR == <<"E", "R", "R", "O", "R">>   \* the string "ERROR" in column doc_id

-----------------------------------------------------------------------------
(* Utils/utils.py *)

\* hashlib.md5(data).hexdigest(): 32 symbols, taken collision-free. The first
\* symbol stands for the digested data as a whole, so that two digests are
\* equal exactly when the data are.
md5_hexdigest(data) ==
    [i \in 1..DigestLen |-> IF i = 1 THEN data ELSE "_"]

\* get_id without the startswith("0x") half of its test
looks_like_hash_by_length(doc) ==
    Len(doc) = IdLen

looks_like_hash(doc) ==
    Len(doc) = IdLen /\ doc[1] = "0" /\ doc[2] = "x"

\* m.update(doc); m.update(tool): the digest of doc followed by tool
get_id(tool, doc) ==
    IF looks_like_hash(doc)
    THEN doc
    ELSE <<"0", "x">> \o md5_hexdigest(doc \o tool)


-----------------------------------------------------------------------------
(* Tasks/DatabaseTaskManager.py: the two tables and the queries made on them *)

\* Task.insert({...}).execute(): appends a row, returns its autoincrement id
Task_insert(T, tool, status) ==
    Append(T, [tool |-> tool, status |-> status])

\* the smallest index of a set of row indices (rowid order), 0 if none
FirstRow(rows) ==
    IF rows = {} THEN 0 ELSE CHOOSE i \in rows : \A j \in rows : i <= j

\* Docs.get(Docs.doc_id == doc_id): row index, 0 for Docs.DoesNotExist
Docs_get_by_doc_id(D, doc_id) ==
    FirstRow({i \in 1..Len(D) : D[i].doc_id = doc_id})

\* Docs.get() without its where clause: the first row, whatever its status
Docs_get_any(D, status) ==
    IF Len(D) > 0 THEN 1 ELSE 0

\* Docs.get(Docs.status == status): row index, 0 for Docs.DoesNotExist
Docs_get_by_status(D, status) ==
    FirstRow({i \in 1..Len(D) : D[i].status = status})

\* the doc_id column without its unique constraint: no insert is rejected
Docs_insert_conflict_never(D, doc_id) ==
    FALSE

\* doc_id = CharField(unique=True): would this insert break the constraint?
Docs_insert_conflict(D, doc_id) ==
    \E i \in 1..Len(D) : D[i].doc_id = doc_id

\* Docs.insert without the task_id of the new task
Docs_insert_without_task(D, doc_id, task_id, path, status) ==
    Append(D, [doc_id |-> doc_id, task_id |-> NoTask, path |-> path, status |-> status])

\* Docs.insert({...}).execute()
Docs_insert(D, doc_id, task_id, path, status) ==
    Append(D, [doc_id |-> doc_id, task_id |-> task_id, path |-> path, status |-> status])

\* Docs.update(status=status).execute(), the where clause left out
Docs_update_status_all(D, doc_id, status) ==
    [i \in 1..Len(D) |-> [D[i] EXCEPT !.status = status]]

\* Docs.update(status=status).where(Docs.doc_id == doc_id).execute()
Docs_update_status(D, doc_id, status) ==
    [i \in 1..Len(D) |-> IF D[i].doc_id = doc_id
                         THEN [D[i] EXCEPT !.status = status]
                         ELSE D[i]]

\* Docs.update(doc_id=new_id).where(Docs.doc_id == doc_id): does the unique
\* constraint on doc_id reject it?
Docs_update_doc_id_conflict(D, doc_id, new_id) ==
    \E i, j \in 1..Len(D) : /\ D[i].doc_id = doc_id
                            /\ j # i
                            /\ D[j].doc_id = new_id

\* Docs.update(doc_id=new_id).where(Docs.doc_id == doc_id).execute()
Docs_update_doc_id(D, doc_id, new_id) ==
    [i \in 1..Len(D) |-> IF D[i].doc_id = doc_id
                         THEN [D[i] EXCEPT !.doc_id = new_id]
                         ELSE D[i]]

\* TaskManager.get_task_status: Task.get(Task.id == task_id).status
get_task_status(T, task_id) ==
    T[task_id].status

\* get_doc_status with a missing row read as PENDING
get_doc_status_default_pending(D, doc_id) ==
    LET i == Docs_get_by_doc_id(D, doc_id)
    IN IF i = 0 THEN "PENDING" ELSE D[i].status

\* TaskManager.get_doc_status
get_doc_status(D, doc_id) ==
    LET i == Docs_get_by_doc_id(D, doc_id)
    IN IF i = 0 THEN "UNKNOWN" ELSE D[i].status

-----------------------------------------------------------------------------
(* Storage/FileSystemStorage.py *)

AbsDir == "/tmp/nlpipe_x"   \* an absolute result_dir, as in the test
RelDir == "nlpipe_x"        \* a relative one

\* os.path.join(self.result_dir, tool, str(doc_id))
FSS_filename(dir, tool, doc_id) ==
    [dir |-> dir, tool |-> tool, name |-> doc_id]

\* self._write: creates or truncates the file and writes doc
FSS_write(F, dir, tool, doc_id, doc) ==
    LET fn == FSS_filename(dir, tool, doc_id)
    IN [p \in DOMAIN F \cup {fn} |-> IF p = fn THEN doc ELSE F[p]]

\* self._read: can the file be opened?
FSS_exists(F, dir, tool, doc_id) ==
    FSS_filename(dir, tool, doc_id) \in DOMAIN F

FSS_read(F, dir, tool, doc_id) ==
    F[FSS_filename(dir, tool, doc_id)]

\* get_task giving the doc_id back when the read failed
FSS_get_task_keeps_id(F, dir, tool, doc_id) ==
    LET fn == FSS_filename(dir, tool, doc_id)
    IN IF dir = AbsDir /\ fn \in DOMAIN F
       THEN [doc_id |-> doc_id, doc |-> F[fn]]
       ELSE [doc_id |-> doc_id, doc |-> None]

\* FileSystemStorage.get_task reads self._read(tool, fn) with fn the full
\* path already: os.path.join(tool_directory, fn) is fn itself when fn is
\* absolute, and a path under tool_directory, where nothing is ever
\* written, when fn is relative. Any exception gives (None, None).
FSS_get_task(F, dir, tool, doc_id) ==
    LET fn == FSS_filename(dir, tool, doc_id)
    IN IF dir = AbsDir /\ fn \in DOMAIN F
       THEN [doc_id |-> doc_id, doc |-> F[fn]]
       ELSE [doc_id |-> None, doc |-> None]

\* the guard of store_result with PENDING let through as well
FSS_store_allowed_pending(status) ==
    status \in {"PENDING", "STARTED", "DONE", "ERROR"}

\* the guard of FileSystemStorage.store_result and store_error
FSS_store_allowed(status) ==
    status \in {"STARTED", "DONE", "ERROR"}

\* the message of the ValueError FileSystemStorage.result raises: for ERROR a
\* string that is never formatted, otherwise "Status of <doc_id> is <status>"
FSS_result_message(status, doc_id) ==
    IF status = "ERROR"
    THEN <<"Status of ", <<"{doc_id}">>, " is ", "ERROR">>
    ELSE <<"Status of ", doc_id, " is ", status>>

\* the guard of TaskManager.process for a reset
TM_reset_wanted(status, reset_error, reset_pending) ==
    \/ status = "ERROR" /\ reset_error
    \/ status = "STARTED" /\ reset_pending

-----------------------------------------------------------------------------
(* Tasks/TaskManager.py, one statement of a handler at a time.               *)
(* A frame is a call of a handler: its arguments, its local variables, the   *)
(* statement it is at (pc) and, at pc = "return", what it returned or raised.*)
(* A step maps the stores s = [Task, Docs, files] and a frame to the stores  *)
(* and the frame after the statement.                                        *)

NoFrame ==
    [op |-> "none", pc |-> "return", tool |-> None, doc |-> None,
     task_idx |-> NoTask, document_idx |-> None,
     reset_error |-> FALSE, reset_pending |-> FALSE,
     task_id |-> NoTask, doc_id |-> None, sel |-> None, status |-> "",
     text |-> None, raised |-> "none", msg |-> None]

Call(op, tool, doc, task_idx, document_idx, reset_error, reset_pending) ==
    [NoFrame EXCEPT !.op = op, !.pc = "start", !.tool = tool, !.doc = doc,
                    !.task_idx = task_idx, !.document_idx = document_idx,
                    !.reset_error = reset_error, !.reset_pending = reset_pending]

\* Returned(f) is what the caller holds after the call: which document it
\* addressed, and what the call gave back or raised
Return(s, f) == [s |-> s, f |-> [f EXCEPT !.pc = "return"]]
Raise(s, f, exc) == [s |-> s, f |-> [f EXCEPT !.pc = "return", !.raised = exc]]

Returned(f) ==
    [NoFrame EXCEPT !.op = f.op, !.raised = f.raised,
                    !.tool = IF f.op = "process" THEN None ELSE f.tool,
                    !.document_idx = IF f.op = "process" THEN None ELSE f.document_idx,
                    !.task_id = IF f.op = "process" /\ f.raised = "none"
                                THEN f.task_id ELSE NoTask,
                    !.doc_id = IF f.op \in {"process", "get_task"} /\ f.raised = "none"
                               THEN f.doc_id ELSE None,
                    !.text = IF f.raised = "none" THEN f.text ELSE None,
                    !.status = IF f.op = "get_doc_status" THEN f.status ELSE ""]
Goto(s, f, pc) == [s |-> s, f |-> [f EXCEPT !.pc = pc]]

\* TaskManager.process
TM_process_step(s, dir, f) ==
    CASE f.pc = "start" ->
           IF f.task_idx = NoTask
           THEN \* Task.insert({'tool': tool, 'status': "PENDING"})
                LET T == Task_insert(s.Task, f.tool, "PENDING")
                IN Goto([s EXCEPT !.Task = T], [f EXCEPT !.task_id = Len(T)], "pr_store")
           ELSE \* doc_status = self.get_doc_status(document_idx)
                Goto(s, [f EXCEPT !.status = get_doc_status(s.Docs, f.document_idx)],
                     "pr_reset")
      [] f.pc = "pr_store" ->
           \* docStorageModule.process(..., doc_status="PENDING"): the id is
           \* computed unless given, and the document is written
           LET doc_id == IF f.document_idx = None THEN get_id(f.tool, f.doc)
                         ELSE f.document_idx
           IN Goto([s EXCEPT !.files = FSS_write(s.files, dir, f.tool, doc_id, f.doc)],
                   [f EXCEPT !.doc_id = doc_id], "pr_insert")
      [] f.pc = "pr_insert" ->
           \* Docs.insert({...}).execute(); return task_id, doc_id
           IF Docs_insert_conflict(s.Docs, f.doc_id)
           THEN Raise(s, f, "IntegrityError")
           ELSE Return([s EXCEPT !.Docs = Docs_insert(s.Docs, f.doc_id, f.task_id,
                                   FSS_filename(dir, f.tool, f.doc_id), "PENDING")],
                       f)
      [] f.pc = "pr_reset" ->
           \* line 36-41. The logging.debug of the reset branch formats
           \* "{doc_id} ... {status}" with locals(), which holds neither name
           \* on this path: KeyError, before Docs.update is reached
           IF TM_reset_wanted(f.status, f.reset_error, f.reset_pending)
           THEN Raise(s, f, "KeyError")
           ELSE Return(s, [f EXCEPT !.task_id = f.task_idx, !.doc_id = f.document_idx])

\* TaskManager.get_task
TM_get_task_step(s, dir, f) ==
    CASE f.pc = "start" ->
           \* doc_id = Docs.get(Docs.status == "PENDING").doc_id
           LET i == Docs_get_by_status(s.Docs, "PENDING")
           IN IF i = 0
              THEN Return(s, f)   \* except DoesNotExist: return None, None
              ELSE Goto(s, [f EXCEPT !.sel = s.Docs[i].doc_id,
                                     !.doc_id = s.Docs[i].doc_id], "gt_read")
      [] f.pc = "gt_read" ->
           \* doc_id, doc = self.app.docStorageModule.get_task(tool, doc_id)
           LET got == FSS_get_task(s.files, dir, f.tool, f.doc_id)
           IN Goto(s, [f EXCEPT !.doc_id = got.doc_id, !.text = got.doc], "gt_flip")
      [] f.pc = "gt_flip" ->
           \* Docs.update(status="STARTED").where(Docs.doc_id == doc_id)
           Return([s EXCEPT !.Docs = Docs_update_status(s.Docs, f.doc_id, "STARTED")], f)

\* TaskManager.store_result
TM_store_result_step(s, dir, f) ==
    CASE f.pc = "start" ->
           \* FileSystemStorage.store_result: the status check
           LET status == get_doc_status(s.Docs, f.document_idx)
           IN IF FSS_store_allowed(status)
              THEN Goto(s, [f EXCEPT !.status = status], "sr_write")
              ELSE Raise(s, [f EXCEPT !.status = status], "ValueError")
      [] f.pc = "sr_write" ->
           Goto([s EXCEPT !.files = FSS_write(s.files, dir, f.tool, f.document_idx, f.doc)],
                f, "sr_update")
      [] f.pc = "sr_update" ->
           \* Docs.update(status="DONE").where(Docs.doc_id == doc_id)
           Return([s EXCEPT !.Docs = Docs_update_status(s.Docs, f.document_idx, "DONE")], f)

\* TaskManager.store_error
TM_store_error_step(s, dir, f) ==
    CASE f.pc = "start" ->
           \* FileSystemStorage.store_error: the status check
           LET status == get_doc_status(s.Docs, f.document_idx)
           IN IF FSS_store_allowed(status)
              THEN Goto(s, [f EXCEPT !.status = status], "se_write")
              ELSE Raise(s, [f EXCEPT !.status = status], "ValueError")
      [] f.pc = "se_write" ->
           Goto([s EXCEPT !.files = FSS_write(s.files, dir, f.tool, f.document_idx, f.doc)],
                f, "se_update")
      [] f.pc = "se_update" ->
           \* Docs.update(doc_id="ERROR").where(Docs.doc_id == doc_id)
           IF Docs_update_doc_id_conflict(s.Docs, f.document_idx, Str_ERROR)
           THEN Raise(s, f, "IntegrityError")
           ELSE Return([s EXCEPT !.Docs = Docs_update_doc_id(s.Docs, f.document_idx,
                                                             Str_ERROR)], f)

\* TaskManager.get_result with ret_format None, through FileSystemStorage.result
TM_get_result_step(s, dir, f) ==
    CASE f.pc = "start" ->
           LET status == get_doc_status(s.Docs, f.document_idx)
               g == [f EXCEPT !.status = status]
           IN IF status = "DONE" THEN Goto(s, g, "gr_read")
              ELSE Raise(s, [g EXCEPT !.msg = FSS_result_message(status, f.document_idx)],
                         "ValueError")
      [] f.pc = "gr_read" ->
           IF FSS_exists(s.files, dir, f.tool, f.document_idx)
           THEN Return(s, [f EXCEPT !.text = FSS_read(s.files, dir, f.tool, f.document_idx)])
           ELSE Raise(s, f, "FileNotFoundError")

\* TaskManager.get_doc_status as a call
TM_get_doc_status_step(s, dir, f) ==
    Return(s, [f EXCEPT !.status = get_doc_status(s.Docs, f.document_idx)])

\* the next statement of the call f
Step(s, dir, f) ==
    CASE f.op = "process" -> TM_process_step(s, dir, f)
      [] f.op = "get_task" -> TM_get_task_step(s, dir, f)
      [] f.op = "store_result" -> TM_store_result_step(s, dir, f)
      [] f.op = "store_error" -> TM_store_error_step(s, dir, f)
      [] f.op = "get_result" -> TM_get_result_step(s, dir, f)
      [] f.op = "get_doc_status" -> TM_get_doc_status_step(s, dir, f)

\* the whole call, from the statement f is at to its return
RECURSIVE Run(_, _, _)
Run(s, dir, f) ==
    IF f.pc = "return" THEN [s |-> s, f |-> f]
    ELSE LET n == Step(s, dir, f) IN Run(n.s, dir, n.f)

-----------------------------------------------------------------------------
(* What the callers have seen: updated when a call returns, never read by a  *)
(* handler.                                                                  *)

NoHist ==
    [claimed |-> {},     \* doc_ids a claim returned, not reset to PENDING since
     created |-> {},     \* per doc_id: the submit that first created its row
     completed |-> {}]   \* per doc_id: the result of the last complete, until
                         \* the next complete or fail on it

Observe(h, f) ==
    CASE f.op = "process" /\ f.raised = "none" /\ f.task_idx = NoTask ->
           [h EXCEPT
              !.created = IF \E o \in @ : o.doc_id = f.doc_id THEN @
                          ELSE @ \cup {[tool |-> f.tool, doc |-> f.doc,
                                        document_idx |-> f.document_idx,
                                        task_id |-> f.task_id, doc_id |-> f.doc_id]}]
      [] f.op = "get_task" /\ f.doc_id # None ->
           [h EXCEPT !.claimed = @ \cup {f.doc_id}]
      [] f.op = "store_result" ->
           [h EXCEPT !.completed =
               {o \in @ : o.doc_id # f.document_idx}
               \cup (IF f.raised = "none"
                     THEN {[tool |-> f.tool, doc_id |-> f.document_idx, doc |-> f.doc]}
                     ELSE {})]
      [] f.op = "store_error" ->
           [h EXCEPT !.completed = {o \in @ : o.doc_id # f.document_idx}]
      [] OTHER -> h

-----------------------------------------------------------------------------
(* State, inputs and the sequential specification: one caller, each handler  *)
(* runs from its call to its return.                                         *)

stores == [Task |-> Task, Docs |-> Docs, files |-> files]

\* the documents the producers submit: two for one tool, one for another
Inputs ==
    {[tool |-> Tool_upper, doc |-> Doc_x],
     [tool |-> Tool_upper, doc |-> Doc_y],
     [tool |-> Tool_alpino, doc |-> Doc_x]}

\* the ids the hash gives them
HashedIds == {get_id(i.tool, i.doc) : i \in Inputs}

\* no call made yet by the worker's client
NoCall == [op |-> "none", document_idx |-> None, doc |-> None, raised |-> "none"]

\* no worker process started
NoWorker ==
    [pc |-> "off", quit |-> FALSE, tool |-> None, doc_id |-> None, doc |-> None,
     result |-> None, e |-> None, cause |-> "none", last |-> NoCall]

\* no request answered yet
NoResp == [op |-> "none"]

NoGi == [done |-> TRUE, t |-> None, c |-> None, u |-> None, d |-> None,
         id1 |-> None, id2 |-> None]

Init ==
    /\ Task = <<>>
    /\ Docs = <<>>
    /\ files = <<>>
    /\ result_dir \in {AbsDir, RelDir}
    /\ frames = [p \in Procs |-> NoFrame]
    /\ hist = NoHist
    /\ gi = NoGi
    /\ worker = NoWorker
    /\ resp = NoResp

\* caller p makes the call f0 and gets its return
Do(p, f0) ==
    LET out == Run(stores, result_dir, f0)
    IN /\ Task' = out.s.Task
       /\ Docs' = out.s.Docs
       /\ files' = out.s.files
       /\ frames' = [frames EXCEPT ![p] = Returned(out.f)]
       /\ hist' = Observe(hist, out.f)
       /\ UNCHANGED <<result_dir, gi, worker, resp>>

\* a submit of a new document: task_idx and document_idx are None, and the
\* reset flags are not read
SubmitCalls ==
    {Call("process", i.tool, i.doc, NoTask, None, FALSE, FALSE) : i \in Inputs}

\* a submit again, with the ids an earlier submit returned: tool and doc are
\* not read
ResubmitCalls ==
    {Call("process", o.tool, o.doc, o.task_id, o.doc_id, fl[1], fl[2]) :
        o \in hist.created, fl \in BOOLEAN \X BOOLEAN}

ProcessCalls == SubmitCalls \cup ResubmitCalls

\* a submit inserts a Task row: the run is cut at MaxTasks rows
CanCall(f0) ==
    f0.op = "process" /\ f0.task_idx = NoTask => Len(Task) < MaxTasks

GetTaskCalls ==
    {Call("get_task", tool, None, NoTask, None, FALSE, FALSE) : tool \in Tools}

\* workers and readers address a document by the tool it was submitted for
\* and its id, whether or not it was ever submitted
Addressed == {[tool |-> i.tool, doc_id |-> get_id(i.tool, i.doc)] : i \in Inputs}

StoreResultCalls ==
    {Call("store_result", a.tool, doc, NoTask, a.doc_id, FALSE, FALSE) :
        a \in Addressed, doc \in Results}

StoreErrorCalls ==
    {Call("store_error", a.tool, doc, NoTask, a.doc_id, FALSE, FALSE) :
        a \in Addressed, doc \in Errors}

GetResultCalls ==
    {Call("get_result", a.tool, None, NoTask, a.doc_id, FALSE, FALSE) :
        a \in Addressed}

GetDocStatusCalls ==
    {Call("get_doc_status", a.tool, None, NoTask, a.doc_id, FALSE, FALSE) :
        a \in Addressed}

TM_process == \E f0 \in ProcessCalls : CanCall(f0) /\ Do(SeqProc, f0)
TM_get_task == \E f0 \in GetTaskCalls : Do(SeqProc, f0)
TM_store_result == \E f0 \in StoreResultCalls : Do(SeqProc, f0)
TM_store_error == \E f0 \in StoreErrorCalls : Do(SeqProc, f0)
TM_get_result == \E f0 \in GetResultCalls : Do(SeqProc, f0)
TM_get_doc_status == \E f0 \in GetDocStatusCalls : Do(SeqProc, f0)

Next ==
    \/ TM_process
    \/ TM_get_task
    \/ TM_store_result
    \/ TM_store_error
    \/ TM_get_result
    \/ TM_get_doc_status

Spec == Init /\ [][Next]_vars

-----------------------------------------------------------------------------
(* The concurrent specification: the callers of Procs (request threads of   *)
(* the server, workers) run the handlers one statement at a time, in any    *)
(* interleaving. Each query on the tables and each file access is one step. *)

Idle(p) == frames[p].pc = "return"

\* caller p runs the next statement of the call f
Stmt(p, f) ==
    LET n == Step(stores, result_dir, f)
        done == n.f.pc = "return"
    IN /\ Task' = n.s.Task
       /\ Docs' = n.s.Docs
       /\ files' = n.s.files
       /\ frames' = [frames EXCEPT ![p] = IF done THEN Returned(n.f) ELSE n.f]
       /\ hist' = IF done THEN Observe(hist, n.f) ELSE hist
       /\ UNCHANGED <<result_dir, gi, worker, resp>>

\* the call and its first statement
Begin(p, f0) == Idle(p) /\ CanCall(f0) /\ Stmt(p, f0)

\* a later statement
At(p, pc) == frames[p].pc = pc /\ Stmt(p, frames[p])

\* The calls of the concurrent callers: they contend for one document, and
\* their resubmissions ask for the reset of a started document.
InputsC == {[tool |-> Tool_upper, doc |-> Doc_x]}

ProcessCallsC ==
    {f0 \in SubmitCalls : \E i \in InputsC : f0.tool = i.tool /\ f0.doc = i.doc}
    \cup {f0 \in ResubmitCalls : ~f0.reset_error /\ f0.reset_pending}

InC(calls) ==
    {f0 \in calls : \E i \in InputsC :
        /\ f0.tool = i.tool
        /\ f0.document_idx \in {None, get_id(i.tool, i.doc)}}

process_start(p) == \E f0 \in ProcessCallsC : Begin(p, f0)
process_store(p) == At(p, "pr_store")
process_insert(p) == At(p, "pr_insert")
process_reset(p) == At(p, "pr_reset")
get_task_select(p) == \E f0 \in InC(GetTaskCalls) : Begin(p, f0)
get_task_read(p) == At(p, "gt_read")
get_task_flip(p) == At(p, "gt_flip")
store_result_check(p) == \E f0 \in InC(StoreResultCalls) : Begin(p, f0)
store_result_write(p) == At(p, "sr_write")
store_result_update(p) == At(p, "sr_update")
store_error_check(p) == \E f0 \in InC(StoreErrorCalls) : Begin(p, f0)
store_error_write(p) == At(p, "se_write")
store_error_update(p) == At(p, "se_update")

NextC ==
    \E p \in Procs :
        \/ process_start(p)
        \/ process_store(p)
        \/ process_insert(p)
        \/ process_reset(p)
        \/ get_task_select(p)
        \/ get_task_read(p)
        \/ get_task_flip(p)
        \/ store_result_check(p)
        \/ store_result_write(p)
        \/ store_result_update(p)
        \/ store_error_check(p)
        \/ store_error_write(p)
        \/ store_error_update(p)

SpecC == Init /\ [][NextC]_vars

-----------------------------------------------------------------------------
(* get_id on its own: two evaluations on inputs drawn from IdTools, IdDocs   *)

IdTools == {Tool_upper, Tool_test_upper, Tool_alpino}

\* a text that is an id already, and two near misses: one character short,
\* and the right length with another prefix
Doc_hash == get_id(Tool_upper, Doc_x)
Doc_short == SubSeq(Doc_hash, 1, IdLen - 1)
Doc_1x == <<"1">> \o Tail(Doc_hash)
IdDocs == {Doc_x, Doc_y, Doc_x_t, Doc_hash, Doc_short, Doc_1x}

InitId ==
    /\ Task = <<>>
    /\ Docs = <<>>
    /\ files = <<>>
    /\ result_dir = AbsDir
    /\ frames = [p \in Procs |-> NoFrame]
    /\ hist = NoHist
    /\ gi \in {[done |-> FALSE, t |-> t, c |-> c, u |-> u, d |-> d,
                id1 |-> None, id2 |-> None] :
               t \in IdTools, c \in IdDocs, u \in IdTools, d \in IdDocs}
    /\ worker = NoWorker
    /\ resp = NoResp

GetIdPair ==
    /\ ~gi.done
    /\ gi' = [gi EXCEPT !.done = TRUE,
                        !.id1 = get_id(gi.t, gi.c),
                        !.id2 = get_id(gi.u, gi.d)]
    /\ UNCHANGED <<Task, Docs, files, result_dir, frames, hist, worker, resp>>

NextId == GetIdPair

SpecId == InitId /\ [][NextId]_vars

\* "34 characters starting with 0x", as the specification words it
IsIdFormat(x) == Len(x) = 34 /\ SubSeq(x, 1, 2) = <<"0", "x">>

IsSuffix(a, b) == Len(a) <= Len(b) /\ SubSeq(b, Len(b) - Len(a) + 1, Len(b)) = a

-----------------------------------------------------------------------------
(* Claims on the lifecycle *)

ret == frames[SeqProc]    \* what the sequential caller got from its last call

AllIdle == \A p \in Procs : Idle(p)

\* C1: no doc_id is returned to two claim calls, in any interleaving of their
\* steps, unless a submit reset the document to PENDING between the two.
C1_ExclusiveClaim ==
    [][\A p \in Procs :
         (frames[p].pc = "gt_flip" /\ frames'[p].pc = "return"
            /\ frames'[p].doc_id # None)
         => frames'[p].doc_id \notin hist.claimed]_vars

C3_ClaimReturnsOriginal ==
    \A p \in Procs :
        (frames[p].op = "get_task" /\ frames[p].pc = "return" /\ frames[p].doc_id # None)
        => \E o \in hist.created :
              o.doc_id = frames[p].doc_id /\ o.doc = frames[p].text

\* C4: a second submit of the same tool and content, without reset flags,
\* succeeds and returns the (task_id, doc_id) the first one returned.
C4_IdempotentSubmit ==
    [][\A f0 \in SubmitCalls :
         (Do(SeqProc, f0)
            /\ \E o \in hist.created : o.tool = f0.tool /\ o.doc = f0.doc)
         => /\ ret'.raised = "none"
            /\ \E o \in hist.created : /\ o.tool = f0.tool /\ o.doc = f0.doc
                                       /\ ret'.task_id = o.task_id
                                       /\ ret'.doc_id = o.doc_id]_vars

\* the document a submit is for is in a state where submit is to be a no-op
NoOpCase(f0) ==
    LET doc_id == IF f0.document_idx = None THEN get_id(f0.tool, f0.doc)
                  ELSE f0.document_idx
        status == get_doc_status(Docs, doc_id)
    IN \/ status \in {"PENDING", "DONE"}
       \/ status = "ERROR" /\ ~f0.reset_error
       \/ status = "STARTED" /\ ~f0.reset_pending

\* C5: a submit for a document that is PENDING or DONE, or ERROR/STARTED
\* without the matching reset flag, adds no Task row, adds or changes no
\* Docs row and leaves the files as they are.
C5_ResubmitNoOp ==
    [][\A f0 \in ProcessCalls :
         (CanCall(f0) /\ Do(SeqProc, f0) /\ NoOpCase(f0))
         => UNCHANGED <<Task, Docs, files>>]_vars

\* C6: when the submit calls have returned, every Task row is referenced by
\* exactly one Docs row, and there are as many of the one as of the other.
C6_OneTaskPerDocument ==
    AllIdle =>
      /\ Len(Task) = Len(Docs)
      /\ \A i \in 1..Len(Task) :
            Cardinality({j \in 1..Len(Docs) : Docs[j].task_id = i}) = 1

\* C8: complete on a document that is PENDING or UNKNOWN raises, and leaves
\* the tables and the files unchanged.
C8_CompleteRejected ==
    [][\A f0 \in StoreResultCalls :
         (Do(SeqProc, f0)
            /\ get_doc_status(Docs, f0.document_idx) \in {"PENDING", "UNKNOWN"})
         => /\ ret'.raised # "none"
            /\ UNCHANGED <<Task, Docs, files>>]_vars

\* C8 witness: a complete on a PENDING document has raised
C8_Witness ==
    /\ ret.op = "store_result" /\ ret.raised = "ValueError"
    /\ get_doc_status(Docs, ret.document_idx) = "PENDING"

\* what result(tool, doc_id) gives in the current state
ResultNow(tool, doc_id) ==
    Run(stores, result_dir,
        Call("get_result", tool, None, NoTask, doc_id, FALSE, FALSE)).f

\* C9: after a complete of doc_id with r, and until the next complete or
\* fail on it, the status is DONE and result(tool, doc_id) returns r.
C9_CompleteThenResult ==
    \A o \in hist.completed :
        /\ get_doc_status(Docs, o.doc_id) = "DONE"
        /\ ResultNow(o.tool, o.doc_id).raised = "none"
        /\ ResultNow(o.tool, o.doc_id).text = o.doc

\* C10: after a fail that succeeds, the status of that doc_id is ERROR and
\* its file holds the error description.
C10_FailSetsError ==
    [][\A f0 \in StoreErrorCalls :
         (Do(SeqProc, f0) /\ ret'.raised = "none")
         => /\ get_doc_status(Docs', f0.document_idx) = "ERROR"
            /\ FSS_exists(files', result_dir, f0.tool, f0.document_idx)
            /\ FSS_read(files', result_dir, f0.tool, f0.document_idx) = f0.doc]_vars

-----------------------------------------------------------------------------
(* Claims on reset, requeue and result *)

\* a producer submits the document o again: by its content alone, or with
\* the ids the first submit returned
SubmitByContent(o, reset_error, reset_pending) ==
    Call("process", o.tool, o.doc, NoTask, None, reset_error, reset_pending)

SubmitByIds(o, reset_error, reset_pending) ==
    Call("process", o.tool, o.doc, o.task_id, o.doc_id, reset_error, reset_pending)

\* the status of doc_id once the call f0 has run on the stores s
StatusAfter(s, f0, doc_id) ==
    get_doc_status(Run(s, result_dir, f0).s.Docs, doc_id)

\* C11: after a fail on a document, a submit for it with reset_error sets its
\* status to PENDING, and a submit without reset_error leaves it ERROR.
C11_ResetAfterFail ==
    [][\A f0 \in StoreErrorCalls : \A o \in hist.created :
         (Do(SeqProc, f0) /\ ret'.raised = "none" /\ o.doc_id = f0.document_idx)
         => /\ StatusAfter(stores', SubmitByIds(o, TRUE, FALSE), o.doc_id) = "PENDING"
            /\ StatusAfter(stores', SubmitByContent(o, TRUE, FALSE), o.doc_id) = "PENDING"
            /\ StatusAfter(stores', SubmitByIds(o, FALSE, FALSE), o.doc_id) = "ERROR"
            /\ StatusAfter(stores', SubmitByContent(o, FALSE, FALSE), o.doc_id) = "ERROR"]_vars

AllCalls ==
    ProcessCalls \cup GetTaskCalls \cup StoreResultCalls \cup StoreErrorCalls
    \cup GetResultCalls \cup GetDocStatusCalls

\* the call f0 is a complete, a fail or a submit with reset_pending for doc_id
Releases(f0, doc_id) ==
    /\ f0.document_idx = doc_id
    /\ \/ f0.op \in {"store_result", "store_error"}
       \/ f0.op = "process" /\ f0.reset_pending

\* a STARTED document is STARTED after any call but a complete, a fail or a
\* submit with reset_pending for it
StaysStarted ==
    \A f0 \in AllCalls : \A doc_id \in HashedIds :
        (CanCall(f0) /\ Do(SeqProc, f0)
           /\ get_doc_status(Docs, doc_id) = "STARTED" /\ ~Releases(f0, doc_id))
        => get_doc_status(Docs', doc_id) = "STARTED"

\* a submit with reset_pending and the ids of a STARTED document makes it
\* PENDING
ResetPendingByIds ==
    \A o \in hist.created :
        get_doc_status(Docs, o.doc_id) = "STARTED"
        => StatusAfter(stores, SubmitByIds(o, FALSE, TRUE), o.doc_id) = "PENDING"

\* a submit with reset_pending and the content of a STARTED document makes
\* it PENDING
ResetPendingByContent ==
    \A o \in hist.created :
        get_doc_status(Docs, o.doc_id) = "STARTED"
        => StatusAfter(stores, SubmitByContent(o, FALSE, TRUE), o.doc_id) = "PENDING"

\* C12: a STARTED document stays STARTED until a complete, a fail or a submit
\* with reset_pending is applied to it, and a submit with reset_pending makes
\* it PENDING again.
C12_NoAutomaticRequeue ==
    [][StaysStarted /\ ResetPendingByIds /\ ResetPendingByContent]_vars

\* the part of C12 that the code keeps: no requeue without a release
C12_StaysStarted ==
    [][StaysStarted]_vars

\* result(tool, doc_id) on the stores s: what it raises or returns, and the
\* stores it leaves
ResultOn(s, tool, doc_id) ==
    Run(s, result_dir, Call("get_result", tool, None, NoTask, doc_id, FALSE, FALSE))

\* the error says the document is not ready: it names PENDING, STARTED or
\* UNKNOWN as the status
IsNotReady(f) ==
    f.raised = "ValueError" /\ f.msg[4] \in {"PENDING", "STARTED", "UNKNOWN"}

\* the error says the document failed and carries the text that fail stored
IsFailed(f, text) ==
    /\ f.raised = "ValueError" /\ f.msg[4] = "ERROR"
    /\ \E i \in 1..Len(f.msg) : f.msg[i] = text

\* C13: result fails with a not-ready error for a PENDING, STARTED or UNKNOWN
\* document and, once fail has stored an error text for it, with a failed
\* error that carries that text; neither changes the tables or the files.
C13_ResultErrors ==
    [][/\ \A a \in Addressed :
            LET out == ResultOn(stores', a.tool, a.doc_id)
                status == get_doc_status(Docs', a.doc_id)
            IN /\ status \in {"PENDING", "STARTED", "UNKNOWN"}
                    => IsNotReady(out.f) /\ out.s = stores'
               /\ status = "ERROR"
                    => /\ FSS_exists(files', result_dir, a.tool, a.doc_id)
                       /\ IsFailed(out.f, FSS_read(files', result_dir, a.tool, a.doc_id))
                       /\ out.s = stores'
       /\ \A f0 \in StoreErrorCalls :
            (Do(SeqProc, f0) /\ ret'.raised = "none")
            => LET out == ResultOn(stores', f0.tool, f0.document_idx)
               IN IsFailed(out.f, f0.doc) /\ out.s = stores']_vars

\* the part of C13 on documents that are not ready
C13_NotReady ==
    \A a \in Addressed :
        LET out == ResultOn(stores, a.tool, a.doc_id)
        IN get_doc_status(Docs, a.doc_id) \in {"PENDING", "STARTED", "UNKNOWN"}
           => IsNotReady(out.f) /\ out.s = stores

-----------------------------------------------------------------------------
(* Claims on the invariants of the tables and the files *)

\* the file of the document o holds one of the texts
BlobIn(o, texts) ==
    /\ FSS_exists(files, result_dir, o.tool, o.doc_id)
    /\ FSS_read(files, result_dir, o.tool, o.doc_id) \in texts

\* C14: in every state, under any interleaving, the file of a PENDING or
\* STARTED document holds the submitted content, that of a DONE document a
\* result and that of an ERROR document an error description.
C14_StatusBlobAgreement ==
    \A o \in hist.created :
        LET status == get_doc_status(Docs, o.doc_id)
        IN /\ status \in {"PENDING", "STARTED"} => BlobIn(o, {o.doc})
           /\ status = "DONE" => BlobIn(o, Results)
           /\ status = "ERROR" => BlobIn(o, Errors)

\* C15: no operation changes the doc_id column of an existing row, and the
\* status of a submitted document is never UNKNOWN again.
C15_DocIdImmutable ==
    [][/\ \A i \in 1..Len(Docs) : Docs'[i].doc_id = Docs[i].doc_id
       /\ \A doc_id \in HashedIds :
            get_doc_status(Docs, doc_id) # "UNKNOWN"
            => get_doc_status(Docs', doc_id) # "UNKNOWN"]_vars

\* C16: after each operation, the status of a task is the status of the
\* document that references it.
C16_TaskMirrorsDocument ==
    \A i \in 1..Len(Docs) :
        get_task_status(Task, Docs[i].task_id) = Docs[i].status

\* the changes of status the state machine has
Transitions ==
    {<<"PENDING", "STARTED">>, <<"STARTED", "DONE">>, <<"ERROR", "DONE">>,
     <<"STARTED", "ERROR">>, <<"DONE", "ERROR">>,
     <<"ERROR", "PENDING">>, <<"STARTED", "PENDING">>}

\* C17: under any interleaving, the status of a document changes only along
\* the transitions of the state machine; a claim does not take a DONE or
\* ERROR document back to STARTED.
C17_TransitionsOnly ==
    [][\A i \in 1..Len(Docs) :
         Docs'[i].status # Docs[i].status
         => <<Docs[i].status, Docs'[i].status>> \in Transitions]_vars

-----------------------------------------------------------------------------
(* Workers/worker.py: Worker.run, one worker process for one tool, talking   *)
(* to the server through Clients/HTTPClient.py. A request either does not    *)
(* reach the server (requests raises) or runs the server's handler to its    *)
(* end; the client raises when the handler raised (the answer is a 500).     *)

\* id, the Python builtin that line 58 passes where doc_id is meant, as it
\* appears in the url the client formats
Builtin_id == <<"<built-in function id>">>

\* str(e) of an exception raised by a client call
StrOf(raised) == <<raised>>

\* the texts an exception of the tool can have
ToolErrors == Errors

\* one request of the client: the stores after it and the returned frame
Client_request(s, f0, down) ==
    IF down
    THEN [s |-> s, f |-> [f0 EXCEPT !.pc = "return", !.raised = "ConnectionError"]]
    ELSE Run(s, result_dir, f0)

\* what the worker keeps of a request
Called(f) ==
    [op |-> f.op, document_idx |-> f.document_idx, doc |-> f.doc, raised |-> f.raised]

\* the loop leaving on every empty get_task, whatever self.quit is
Worker_after_get_task_always_quit(w, f) ==
    IF f.raised # "none" THEN [w EXCEPT !.pc = "crashed"]
    ELSE IF f.doc_id = None
         THEN [w EXCEPT !.pc = "quit"]
         ELSE [w EXCEPT !.pc = "process", !.doc_id = f.doc_id, !.doc = f.text]

\* line 41-48: after get_task. The call is in no try block.
Worker_after_get_task(w, f) ==
    IF f.raised # "none" THEN [w EXCEPT !.pc = "crashed"]
    ELSE IF f.doc_id = None
         THEN [w EXCEPT !.pc = IF w.quit THEN "quit" ELSE "get_task"]
         ELSE [w EXCEPT !.pc = "process", !.doc_id = f.doc_id, !.doc = f.text]

\* line 51-54: after store_result, inside try ... except Exception
Worker_after_store_result_uncaught(w, f) ==
    IF f.raised # "none" THEN [w EXCEPT !.pc = "crashed"]
    ELSE [w EXCEPT !.pc = "get_task"]

Worker_after_store_result(w, f) ==
    IF f.raised # "none"
    THEN [w EXCEPT !.pc = "store_error", !.e = StrOf(f.raised), !.cause = "store_result"]
    ELSE [w EXCEPT !.pc = "get_task", !.doc_id = None, !.doc = None, !.result = None]

\* line 57-61: after store_error, inside try ... except:
Worker_after_store_error(w, f) ==
    [w EXCEPT !.pc = "get_task", !.doc_id = None, !.doc = None, !.result = None,
              !.e = None, !.cause = "none"]

\* the worker's request changes the stores; the producers' frames stay
WorkerDoes(out, w) ==
    /\ Task' = out.s.Task
    /\ Docs' = out.s.Docs
    /\ files' = out.s.files
    /\ worker' = [w EXCEPT !.last = Called(out.f)]
    /\ UNCHANGED <<result_dir, frames, hist, gi, resp>>

\* line 41: doc_id, doc = self.client.get_task(self.tool.name)
Worker_get_task ==
    /\ worker.pc = "get_task"
    /\ \E down \in BOOLEAN :
         LET out == Client_request(stores,
                        Call("get_task", worker.tool, None, NoTask, None, FALSE, FALSE),
                        down)
         IN WorkerDoes(out, Worker_after_get_task(worker, out.f))

\* line 50: result = self.tool.process(doc, ...), which returns or raises
Worker_process ==
    /\ worker.pc = "process"
    /\ \/ \E r \in Results :
            worker' = [worker EXCEPT !.pc = "store_result", !.result = r,
                                     !.last = NoCall]
       \/ \E e \in ToolErrors :
            worker' = [worker EXCEPT !.pc = "store_error", !.e = e,
                                     !.cause = "process", !.last = NoCall]
    /\ UNCHANGED <<Task, Docs, files, result_dir, frames, hist, gi, resp>>

\* line 51: self.client.store_result(self.tool.name, doc_id, result)
Worker_store_result ==
    /\ worker.pc = "store_result"
    /\ \E down \in BOOLEAN :
         LET out == Client_request(stores,
                        Call("store_result", worker.tool, worker.result, NoTask,
                             worker.doc_id, FALSE, FALSE),
                        down)
         IN WorkerDoes(out, Worker_after_store_result(worker, out.f))

\* line 58: self.client.store_error(self.tool.name, id, str(e))
Worker_store_error ==
    /\ worker.pc = "store_error"
    /\ \E down \in BOOLEAN :
         LET out == Client_request(stores,
                        Call("store_error", worker.tool, worker.e, NoTask,
                             Builtin_id, FALSE, FALSE),
                        down)
         IN WorkerDoes(out, Worker_after_store_error(worker, out.f))

\* the worker is started for one tool, with or without --quit
InitW ==
    /\ Task = <<>>
    /\ Docs = <<>>
    /\ files = <<>>
    /\ result_dir = AbsDir
    /\ frames = [p \in Procs |-> NoFrame]
    /\ hist = NoHist
    /\ gi = NoGi
    /\ worker \in {[NoWorker EXCEPT !.pc = "get_task", !.quit = q, !.tool = Tool_upper] :
                   q \in BOOLEAN}
    /\ resp = NoResp

\* producers submit and resubmit while the worker runs
NextW ==
    \/ TM_process
    \/ Worker_get_task
    \/ Worker_process
    \/ Worker_store_result
    \/ Worker_store_error

SpecW == InitW /\ [][NextW]_vars

\* C18: when the tool raises for the claimed document d, the worker calls
\* fail for d with the text of the exception, d becomes ERROR when that call
\* succeeds, and the worker goes on to its next get_task.
C18_WorkerReportsFailure ==
    [][(worker.pc = "store_error" /\ worker.cause = "process" /\ worker' # worker)
       => /\ worker'.last.op = "store_error"
          /\ worker'.last.document_idx = worker.doc_id
          /\ worker'.last.doc = worker.e
          /\ worker'.last.raised = "none"
                => get_doc_status(Docs', worker.doc_id) = "ERROR"
          /\ worker'.pc = "get_task"]_vars

\* C19: when the worker's get_task raises, the worker is still in its loop
\* and calls get_task again.
C19_ClaimFailureCaught ==
    [][(worker.pc = "get_task" /\ worker' # worker /\ worker'.last.raised # "none")
       => worker'.pc = "get_task"]_vars

\* C20: when store_result or store_error raises, the worker is still in its
\* loop: after a failed store_result it reports the failure, after a failed
\* store_error it goes to its next get_task.
C20_ReportFailureCaught ==
    [][(worker' # worker /\ worker'.last.raised # "none")
       => /\ worker.pc = "store_result" => worker'.pc = "store_error"
          /\ worker.pc = "store_error" => worker'.pc = "get_task"]_vars

\* C20 witness: a store_error of the worker has raised and the worker is at
\* its next get_task
C20_Witness ==
    /\ worker.pc = "get_task"
    /\ worker.last.op = "store_error" /\ worker.last.raised # "none"

\* what the worker's get_task returns in the current state when the request
\* reaches the server
Worker_claim ==
    Run(stores, result_dir,
        Call("get_task", worker.tool, None, NoTask, None, FALSE, FALSE)).f

\* C21: when the worker's get_task returns no document, a worker started
\* with quit leaves the loop and no table row and no file has changed; a
\* worker started without quit is at get_task again, and never leaves the
\* loop. A worker that has left the loop makes no further request.
C21_WorkerOnEmptyClaim ==
    [][/\ (/\ worker.pc = "get_task" /\ worker' # worker
           /\ worker'.last.raised = "none" /\ Worker_claim.doc_id = None)
          => /\ worker.quit => (worker'.pc = "quit" /\ stores' = stores)
             /\ ~worker.quit => worker'.pc = "get_task"
       /\ ~worker.quit => worker'.pc # "quit"
       /\ worker.pc = "quit" => worker' = worker]_vars

\* C21 witness: a worker started with quit has left the loop after a
\* get_task that returned no document while documents were in the table
C21_Witness ==
    /\ worker.quit /\ worker.pc = "quit"
    /\ worker.last.op = "get_task" /\ worker.last.raised = "none"
    /\ Len(Docs) > 0

\* what a call f0 made in the current state does and returns
CallNow(f0) == Run(stores, result_dir, f0)

\* C24: a submit of a document whose status is UNKNOWN returns without
\* error; it appends one Task row with status PENDING and one Docs row with
\* status PENDING, the id of the document and the id of that task, leaves
\* the other rows as they were, writes the content to the file of (tool,
\* doc_id), and returns that task_id and doc_id.
C24_SubmitUnknownCreates ==
    \A f0 \in SubmitCalls :
        LET doc_id == get_id(f0.tool, f0.doc)
            out == CallNow(f0)
            T == out.s.Task
            D == out.s.Docs
        IN get_doc_status(Docs, doc_id) = "UNKNOWN"
           => /\ out.f.raised = "none"
              /\ Len(T) = Len(Task) + 1 /\ SubSeq(T, 1, Len(Task)) = Task
              /\ T[Len(T)].status = "PENDING" /\ T[Len(T)].tool = f0.tool
              /\ Len(D) = Len(Docs) + 1 /\ SubSeq(D, 1, Len(Docs)) = Docs
              /\ D[Len(D)].doc_id = doc_id /\ D[Len(D)].status = "PENDING"
              /\ D[Len(D)].task_id = Len(T)
              /\ FSS_read(out.s.files, result_dir, f0.tool, doc_id) = f0.doc
              /\ out.f.task_id = Len(T) /\ out.f.doc_id = doc_id

\* C24 witness: a second document has been submitted and has its own Task
\* row and Docs row
C24_Witness ==
    /\ ret.op = "process" /\ ret.raised = "none" /\ ret.task_id = 2
    /\ Len(Task) = 2 /\ Len(Docs) = 2
    /\ Docs[2].doc_id = ret.doc_id /\ Docs[2].task_id = 2
    /\ Docs[2].status = "PENDING"

\* C25: get_doc_status returns UNKNOWN exactly when no Docs row has the
\* doc_id, the status of the row otherwise, and changes no row and no file.
C25_StatusPureRead ==
    \A f0 \in GetDocStatusCalls :
        LET out == CallNow(f0)
            rows == {i \in 1..Len(Docs) : Docs[i].doc_id = f0.document_idx}
        IN /\ out.s = stores
           /\ out.f.raised = "none"
           /\ out.f.status = "UNKNOWN" <=> rows = {}
           /\ \A i \in rows : out.f.status = Docs[i].status

\* C25 witness: get_doc_status has returned UNKNOWN for one document while
\* another document has a row
C25_Witness ==
    /\ ret.op = "get_doc_status" /\ ret.status = "UNKNOWN"
    /\ Len(Docs) > 0

\* C26: when no Docs row has status PENDING, get_task returns (None, None)
\* for every tool, raises nothing and changes no row and no file.
C26_EmptyClaim ==
    (\A i \in 1..Len(Docs) : Docs[i].status # "PENDING")
    => \A f0 \in GetTaskCalls :
          LET out == CallNow(f0)
          IN /\ out.f.raised = "none"
             /\ out.f.doc_id = None /\ out.f.text = None
             /\ out.s = stores

\* C26 witness: a get_task has returned (None, None) while the only
\* documents in the table are STARTED or DONE
C26_Witness ==
    /\ ret.op = "get_task" /\ ret.raised = "none" /\ ret.doc_id = None
    /\ Len(Docs) > 0
    /\ \A i \in 1..Len(Docs) : Docs[i].status \in {"STARTED", "DONE"}

\* the rows of the PENDING documents submitted for a tool, and the one
\* submitted first among a set of rows: task ids grow with every submit
PendingOf(tool) ==
    {i \in 1..Len(Docs) : Docs[i].status = "PENDING" /\ Task[Docs[i].task_id].tool = tool}

FirstSubmitted(rows) ==
    CHOOSE i \in rows : \A j \in rows : Docs[i].task_id <= Docs[j].task_id

\* two get_task calls of one tool with nothing in between
TwoClaims(tool) ==
    LET f0 == Call("get_task", tool, None, NoTask, None, FALSE, FALSE)
        c1 == CallNow(f0)
    IN <<c1.f, Run(c1.s, result_dir, f0).f>>

\* successive claims of a tool return its PENDING documents in the order
\* of their submission
ClaimsInOrder(tool) ==
    LET P == PendingOf(tool)
        i1 == FirstSubmitted(P)
        cs == TwoClaims(tool)
    IN P # {}
       => /\ cs[1].doc_id = Docs[i1].doc_id
          /\ P \ {i1} # {} => cs[2].doc_id = Docs[FirstSubmitted(P \ {i1})].doc_id

\* C27: with the result directory of the test, and documents PENDING for a
\* tool, the first get_task of that tool returns the one submitted first
\* and the second get_task the one submitted second.
C27_ClaimOrder ==
    result_dir = AbsDir => \A tool \in Tools : ClaimsInOrder(tool)

\* C27, when every PENDING document was submitted for the claiming tool:
\* the claims return them in the order of their submission.
C27_ClaimOrderOneTool ==
    result_dir = AbsDir
    => \A tool \in Tools :
          (\A t \in Tools \ {tool} : PendingOf(t) = {}) => ClaimsInOrder(tool)

\* the call f0 for the document of the submit o changed nothing but the
\* status of its row, which is PENDING, and returned the ids of o
OnlyStatusReset(o, f0) ==
    LET out == CallNow(f0)
    IN /\ out.f.raised = "none"
       /\ out.f.task_id = o.task_id /\ out.f.doc_id = o.doc_id
       /\ out.s.files = files
       /\ out.s.Task = Task
       /\ Len(out.s.Docs) = Len(Docs)
       /\ \A i \in 1..Len(Docs) :
             out.s.Docs[i] = IF Docs[i].doc_id = o.doc_id
                             THEN [Docs[i] EXCEPT !.status = "PENDING"]
                             ELSE Docs[i]

\* the reset flags that apply to a status
ResetFlags(status) ==
    CASE status = "ERROR" -> {<<TRUE, FALSE>>, <<TRUE, TRUE>>}
      [] status = "STARTED" -> {<<FALSE, TRUE>>, <<TRUE, TRUE>>}
      [] OTHER -> {}

\* C28: a submit with reset_error for an ERROR document, or with
\* reset_pending for a STARTED document, sets the status of its row to
\* PENDING and changes nothing else: the file is as it was, no Task row and
\* no Docs row is added, and the call returns the ids the document had.
C28_ResetOnlyStatus ==
    \A o \in hist.created : \A fl \in ResetFlags(get_doc_status(Docs, o.doc_id)) :
        /\ OnlyStatusReset(o, SubmitByIds(o, fl[1], fl[2]))
        /\ OnlyStatusReset(o, SubmitByContent(o, fl[1], fl[2]))

\* what the code does on a submit with the reset flag that applies: it
\* raises, and the status of the document is what it was
C28_ResetRaises ==
    \A o \in hist.created : \A fl \in ResetFlags(get_doc_status(Docs, o.doc_id)) :
        \A f0 \in {SubmitByIds(o, fl[1], fl[2]), SubmitByContent(o, fl[1], fl[2])} :
            /\ CallNow(f0).f.raised \in {"KeyError", "IntegrityError"}
            /\ CallNow(f0).s.Docs = Docs

\* C30: whenever result(tool, doc_id) returns, what it returns is the result
\* a complete stored for the document (completes pass one result value
\* here, so it is the one of the last complete): never the content that was
\* submitted, never the text of an error.
C30_ResultIsCompletedResult ==
    \A a \in Addressed :
        LET f == ResultNow(a.tool, a.doc_id)
        IN f.raised = "none"
           => /\ f.text \in Results
              /\ f.text \notin {i.doc : i \in Inputs}
              /\ f.text \notin Errors

-----------------------------------------------------------------------------
(* Servers/ServerTypes/RESTServer.py on top of                               *)
(* Servers/Storage/FileSystemStorage.py, and the methods of                  *)
(* Clients/HTTPClient.py that call it. A storage call gives the stores it    *)
(* leaves, the exception it raised and its value; an endpoint gives the      *)
(* stores and the answer (status code and body).                             *)

\* ids a caller names in a request
RestIds == {<<"i", "1">>, <<"i", "2">>}

\* the lists of ids a bulk request carries
BulkIds == {<<>>, <<<<"i", "1">>>>, <<<<"i", "1">>, <<"i", "2">>>>}

Range(seq) == {seq[i] : i \in 1..Len(seq)}

Ok(s, value) == [s |-> s, raised |-> "none", value |-> value]
Raised(s, exc) == [s |-> s, raised |-> exc, value |-> None]

\* FileSystemStorage.status
SFSS_status(D, tool, doc_id) ==
    LET i == Docs_get_by_doc_id(D, doc_id)
    IN IF i = 0 THEN "UNKNOWN" ELSE D[i].status

\* FileSystemStorage.process
SFSS_process(s, dir, tool, doc, doc_id, task_id, reset_error, reset_pending) ==
    IF doc_id = None
    THEN \* line 77: get_id(doc), where get_id takes (tool, doc)
         Raised(s, "TypeError")
    ELSE LET doc_status == SFSS_status(s.Docs, tool, doc_id)
         IN IF doc_status = "UNKNOWN"
            THEN Ok([s EXCEPT !.files = FSS_write(s.files, dir, tool, doc_id, doc),
                              !.Docs = Docs_insert(s.Docs, doc_id, task_id,
                                                   FSS_filename(dir, tool, doc_id),
                                                   "PENDING")],
                    doc_id)
            ELSE IF \/ doc_status = "ERROR" /\ reset_error
                    \/ doc_status = "STARTED" /\ reset_pending
                 THEN \* line 89: "{status}" is formatted from locals(), which
                      \* has doc_status
                      Raised(s, "KeyError")
                 ELSE Ok(s, doc_id)

\* FileSystemStorage.get_task: the status is flipped before the file is read
SFSS_get_task(s, dir, tool) ==
    LET i == Docs_get_by_status(s.Docs, "PENDING")
    IN IF i = 0
       THEN Ok(s, [doc_id |-> None, doc |-> None])
       ELSE LET doc_id == s.Docs[i].doc_id
                t == [s EXCEPT !.Docs = Docs_update_status(s.Docs, doc_id, "STARTED")]
                got == FSS_get_task(s.files, dir, tool, doc_id)
            IN IF got.doc_id = None
               THEN Raised(t, "FileNotFoundError")
               ELSE Ok(t, got)

\* FileSystemStorage.store_result
SFSS_store_result(s, dir, tool, doc_id, result) ==
    IF ~FSS_store_allowed(SFSS_status(s.Docs, tool, doc_id))
    THEN Raised(s, "ValueError")
    ELSE Ok([s EXCEPT !.files = FSS_write(s.files, dir, tool, doc_id, result),
                      !.Docs = Docs_update_status(s.Docs, doc_id, "DONE")],
            None)

\* FileSystemStorage.store_error
SFSS_store_error(s, dir, tool, doc_id, result) ==
    IF ~FSS_store_allowed(SFSS_status(s.Docs, tool, doc_id))
    THEN Raised(s, "ValueError")
    ELSE LET t == [s EXCEPT !.files = FSS_write(s.files, dir, tool, doc_id, result)]
         IN IF Docs_update_doc_id_conflict(s.Docs, doc_id, Str_ERROR)
            THEN Raised(t, "IntegrityError")
            ELSE Ok([t EXCEPT !.Docs = Docs_update_doc_id(s.Docs, doc_id, Str_ERROR)],
                    None)

\* FileSystemStorage.result, without return_format
SFSS_result(s, dir, tool, doc_id) ==
    LET status == SFSS_status(s.Docs, tool, doc_id)
    IN IF status = "DONE"
       THEN IF FSS_exists(s.files, dir, tool, doc_id)
            THEN Ok(s, FSS_read(s.files, dir, tool, doc_id))
            ELSE Raised(s, "FileNotFoundError")
       ELSE Raised(s, "ValueError")

\* helpers.STATUS_CODES
STATUS_CODES ==
    [st \in {"UNKNOWN", "PENDING", "STARTED", "DONE", "ERROR"} |->
        CASE st = "UNKNOWN" -> 404
          [] st \in {"PENDING", "STARTED"} -> 202
          [] st = "DONE" -> 200
          [] st = "ERROR" -> 500]

\* the answer of an endpoint; an exception that leaves the view is answered
\* by Flask with 500
Answer(s, code, body) == [s |-> s, code |-> code, body |-> body]

\* request.args.get(key): None when the query string has no such key
Args_get(args, key) == IF key \in DOMAIN args THEN args[key] ELSE None

\* POST /api/tools/<tool>/
REST_post_task(s, dir, tool, doc, args) ==
    LET T == Task_insert(s.Task, tool, "PENDING")
        out == SFSS_process([s EXCEPT !.Task = T], dir, tool, doc,
                            Args_get(args, "doc_ic"), Len(T), FALSE, FALSE)
    IN IF out.raised # "none" THEN Answer(out.s, 500, None)
       ELSE Answer(out.s, 202, out.value)

\* HEAD /api/tools/<tool>/<doc_id>
REST_doc_status(s, dir, tool, doc_id) ==
    Answer(s, STATUS_CODES[SFSS_status(s.Docs, tool, doc_id)], None)

\* GET /api/tools/<tool>/<doc_id>
REST_result(s, dir, tool, doc_id) ==
    LET out == SFSS_result(s, dir, tool, doc_id)
    IN CASE out.raised = "none" -> Answer(s, 200, out.value)
         [] out.raised = "FileNotFoundError" -> Answer(s, 404, None)
         [] OTHER ->
            \* line 121: jsonify(result) is given the view function and
            \* raises TypeError inside the except clause
            Answer(s, 500, None)

\* GET /api/tools/<tool>/
REST_get_task(s, dir, tool) ==
    LET out == SFSS_get_task(s, dir, tool)
    IN CASE out.raised # "none" -> Answer(out.s, 500, None)
         [] out.value.doc = None -> Answer(out.s, 404, None)
         [] OTHER -> Answer(out.s, 200, out.value)

\* PUT /api/tools/<tool>/<doc_id>
REST_put_results(s, dir, tool, doc_id, doc, is_error) ==
    LET out == IF is_error THEN SFSS_store_error(s, dir, tool, doc_id, doc)
               ELSE SFSS_store_result(s, dir, tool, doc_id, doc)
    IN IF out.raised # "none" THEN Answer(out.s, 500, None)
       ELSE Answer(out.s, 204, None)

\* POST /api/modules/<module>/bulk/status
REST_bulk_status(s, dir, module, ids) ==
    IF ids = <<>>
    THEN Answer(s, 400, None)
    ELSE Answer(s, 200, [id \in Range(ids) |-> SFSS_status(s.Docs, module, id)])

\* The url map of the blueprint. A path is its first segment after /api, the
\* tool or module name, and what follows the name.
Dir == [kind |-> "dir"]
DocPath(doc_id) == [kind |-> "doc", doc_id |-> doc_id]
BulkPath(what) == [kind |-> "bulk", what |-> what]

Route(method, root, tail) ==
    CASE root = "tools" /\ tail.kind = "dir" /\ method = "POST" -> "post_task"
      [] root = "tools" /\ tail.kind = "dir" /\ method = "GET" -> "get_task"
      [] root = "tools" /\ tail.kind = "doc" /\ method = "HEAD" -> "doc_status"
      [] root = "tools" /\ tail.kind = "doc" /\ method = "GET" -> "result"
      [] root = "tools" /\ tail.kind = "doc" /\ method = "PUT" -> "put_results"
      [] root = "modules" /\ tail.kind = "bulk" /\ method = "POST" -> tail.what
      [] OTHER -> "not_found"

\* the server answering one request of a client
Serve(s, dir, method, root, name, tail, args, data) ==
    LET view == Route(method, root, tail)
    IN CASE view = "post_task" -> REST_post_task(s, dir, name, data, args)
         [] view = "get_task" -> REST_get_task(s, dir, name)
         [] view = "doc_status" -> REST_doc_status(s, dir, name, tail.doc_id)
         [] view = "result" -> REST_result(s, dir, name, tail.doc_id)
         [] view = "put_results" -> REST_put_results(s, dir, name, tail.doc_id,
                                                     data.doc, data.is_error)
         [] view = "status" -> REST_bulk_status(s, dir, name, data)
         [] OTHER -> Answer(s, 404, None)

NoArgs == [k \in {} |-> None]

\* Client.status, which HTTPClient does not override (it has doc_status)
Client_status(s, dir, tool, doc_id) ==
    Raised(s, "NotImplementedError")

\* HTTPClient.process
HTTPClient_process(s, dir, tool, doc, doc_id) ==
    LET args == IF doc_id = None THEN NoArgs ELSE [k \in {"doc_id"} |-> doc_id]
        res == Serve(s, dir, "POST", "tools", tool, Dir, args, doc)
    IN IF res.code # 202 THEN Raised(res.s, "Exception") ELSE Ok(res.s, res.body)

\* HTTPClient.result
HTTPClient_result(s, dir, tool, doc_id) ==
    LET res == Serve(s, dir, "GET", "tools", tool, DocPath(doc_id), NoArgs, None)
    IN IF res.code # 200 THEN Raised(res.s, "Exception") ELSE Ok(res.s, res.body)

\* {id: ... for idx in doc_ids}: every item is stored under the key id, the
\* Python builtin, so the dict has one entry, of the last item
DictUnderBuiltinId(values) ==
    [k \in (IF values = <<>> THEN {} ELSE {Builtin_id}) |-> values[Len(values)]]

\* Client.bulk_status
Client_bulk_status(s, dir, tool, doc_ids) ==
    LET outs == [i \in 1..Len(doc_ids) |-> Client_status(s, dir, tool, doc_ids[i])]
    IN IF \E i \in 1..Len(doc_ids) : outs[i].raised # "none"
       THEN Raised(s, outs[FirstRow({i \in 1..Len(doc_ids) : outs[i].raised # "none"})].raised)
       ELSE Ok(s, DictUnderBuiltinId([i \in 1..Len(doc_ids) |-> outs[i].value]))

\* Client.bulk_result
Client_bulk_result(s, dir, tool, doc_ids) ==
    LET outs == [i \in 1..Len(doc_ids) |-> HTTPClient_result(s, dir, tool, doc_ids[i])]
    IN IF \E i \in 1..Len(doc_ids) : outs[i].raised # "none"
       THEN Raised(s, outs[FirstRow({i \in 1..Len(doc_ids) : outs[i].raised # "none"})].raised)
       ELSE Ok(s, DictUnderBuiltinId([i \in 1..Len(doc_ids) |-> outs[i].value]))

\* Client.bulk_process: [self.process(tool, doc, doc_id=idx, **kargs) for ...]
RECURSIVE Client_bulk_process_from(_, _, _, _, _, _, _)
Client_bulk_process_from(s, dir, tool, docs, doc_ids, k, acc) ==
    IF k > Len(docs) \/ (doc_ids # None /\ k > Len(doc_ids))
    THEN Ok(s, acc)
    ELSE LET out == HTTPClient_process(s, dir, tool, docs[k],
                                       IF doc_ids = None THEN None ELSE doc_ids[k])
         IN IF out.raised # "none" THEN Raised(out.s, out.raised)
            ELSE Client_bulk_process_from(out.s, dir, tool, docs, doc_ids, k + 1,
                                          Append(acc, out.value))

Client_bulk_process(s, dir, tool, docs, doc_ids) ==
    Client_bulk_process_from(s, dir, tool, docs, doc_ids, 1, <<>>)

\* HTTPClient.bulk_doc_status
HTTPClient_bulk_doc_status(s, dir, tool, doc_ids) ==
    LET res == Serve(s, dir, "POST", "tools", tool, BulkPath("status"), NoArgs, doc_ids)
    IN IF res.code # 200 THEN Raised(res.s, "Exception") ELSE Ok(res.s, res.body)

\* HTTPClient.bulk_process, which overrides Client.bulk_process
HTTPClient_bulk_process(s, dir, tool, docs, doc_ids) ==
    LET res == Serve(s, dir, "POST", "tools", tool, BulkPath("process"), NoArgs,
                     [docs |-> docs, doc_ids |-> doc_ids])
    IN IF res.code # 200 THEN Raised(res.s, "Exception") ELSE Ok(res.s, res.body)

\* The REST specification: requests arrive one at a time, from plain HTTP
\* callers and from the bulk methods of a client.

\* query strings of a POST: none, the key the server reads, the key
\* HTTPClient.process sends
PostArgs(doc_id) ==
    {NoArgs, [k \in {"doc_ic"} |-> doc_id], [k \in {"doc_id"} |-> doc_id]}

\* the documents single requests are about: one per tool
RestAddressed ==
    {[tool |-> Tool_upper, doc_id |-> <<"i", "1">>],
     [tool |-> Tool_alpino, doc_id |-> <<"i", "2">>]}

BulkDocs == {<<Doc_x, Doc_y>>}

RestDoes(op, out) ==
    /\ Task' = out.s.Task
    /\ Docs' = out.s.Docs
    /\ files' = out.s.files
    /\ resp' = [op |-> op, code |-> out.code, raised |-> "none", value |-> out.body]
    /\ UNCHANGED <<result_dir, frames, hist, gi, worker>>

ClientDoes(op, out) ==
    /\ Task' = out.s.Task
    /\ Docs' = out.s.Docs
    /\ files' = out.s.files
    /\ resp' = [op |-> op, code |-> 0, raised |-> out.raised, value |-> out.value]
    /\ UNCHANGED <<result_dir, frames, hist, gi, worker>>

post_task ==
    /\ Len(Task) < MaxTasks
    /\ \E a \in RestAddressed : \E args \in PostArgs(a.doc_id) :
         RestDoes("post_task", REST_post_task(stores, result_dir, a.tool, Doc_x, args))

doc_status ==
    \E a \in RestAddressed :
        RestDoes("doc_status", REST_doc_status(stores, result_dir, a.tool, a.doc_id))

result ==
    \E a \in RestAddressed :
        RestDoes("result", REST_result(stores, result_dir, a.tool, a.doc_id))

get_task ==
    \E tool \in Tools :
        RestDoes("get_task", REST_get_task(stores, result_dir, tool))

put_results ==
    \E a \in RestAddressed :
        \/ \E doc \in Results :
             RestDoes("put_results",
                      REST_put_results(stores, result_dir, a.tool, a.doc_id, doc, FALSE))
        \/ \E doc \in Errors :
             RestDoes("put_results",
                      REST_put_results(stores, result_dir, a.tool, a.doc_id, doc, TRUE))

bulk_status ==
    \E module \in {Tool_upper}, ids \in BulkIds :
        RestDoes("bulk_status", REST_bulk_status(stores, result_dir, module, ids))

client_bulk_status ==
    \E tool \in {Tool_upper}, doc_ids \in BulkIds :
        ClientDoes("Client.bulk_status",
                   Client_bulk_status(stores, result_dir, tool, doc_ids))

client_bulk_result ==
    \E tool \in {Tool_upper}, doc_ids \in BulkIds :
        ClientDoes("Client.bulk_result",
                   Client_bulk_result(stores, result_dir, tool, doc_ids))

client_bulk_process ==
    /\ Len(Task) < MaxTasks
    /\ \E tool \in {Tool_upper}, docs \in BulkDocs, doc_ids \in {None, <<<<"i", "1">>, <<"i", "2">>>>} :
         \/ ClientDoes("Client.bulk_process",
                       Client_bulk_process(stores, result_dir, tool, docs, doc_ids))
         \/ ClientDoes("HTTPClient.bulk_process",
                       HTTPClient_bulk_process(stores, result_dir, tool, docs, doc_ids))

client_bulk_doc_status ==
    \E tool \in {Tool_upper}, doc_ids \in BulkIds :
        ClientDoes("HTTPClient.bulk_doc_status",
                   HTTPClient_bulk_doc_status(stores, result_dir, tool, doc_ids))

InitR ==
    /\ Task = <<>>
    /\ Docs = <<>>
    /\ files = <<>>
    /\ result_dir \in {AbsDir, RelDir}
    /\ frames = [p \in Procs |-> NoFrame]
    /\ hist = NoHist
    /\ gi = NoGi
    /\ worker = NoWorker
    /\ resp = NoResp

NextR ==
    \/ post_task
    \/ doc_status
    \/ result
    \/ get_task
    \/ put_results
    \/ bulk_status
    \/ client_bulk_status
    \/ client_bulk_result
    \/ client_bulk_process
    \/ client_bulk_doc_status

SpecR == InitR /\ [][NextR]_vars

\* C29: the result endpoint answers 200 with the result for a DONE document
\* whose file is there, 500 for an ERROR document, and 404 for an UNKNOWN,
\* PENDING or STARTED one.
C29_ResultEndpointCodes ==
    \A tool \in Tools, doc_id \in RestIds :
        LET res == REST_result(stores, result_dir, tool, doc_id)
            status == SFSS_status(Docs, tool, doc_id)
        IN /\ (status = "DONE" /\ FSS_exists(files, result_dir, tool, doc_id))
                => (res.code = 200 /\ res.body = FSS_read(files, result_dir, tool, doc_id))
           /\ status = "ERROR" => res.code = 500
           /\ status \in {"UNKNOWN", "PENDING", "STARTED"} => res.code = 404

\* what the endpoint does: 200 with the file for DONE, 404 for DONE with no
\* file under the tool of the request, 500 for every other status
C29_ResultEndpoint500 ==
    \A tool \in Tools, doc_id \in RestIds :
        LET res == REST_result(stores, result_dir, tool, doc_id)
            status == SFSS_status(Docs, tool, doc_id)
        IN /\ res.s = stores
           /\ status = "DONE" => res.code = IF FSS_exists(files, result_dir, tool, doc_id)
                                            THEN 200 ELSE 404
           /\ status # "DONE" => res.code = 500

\* the dict has one entry for every id asked for
CoversIds(value, ids) == DOMAIN value = Range(ids)

\* C23: bulk_status(tool, ids), of the client and of the server, gives a map
\* whose keys are the ids asked for and whose value for an id is the status
\* of that id.
C23_BulkStatusMap ==
    \A tool \in Tools, ids \in BulkIds :
        LET out == Client_bulk_status(stores, result_dir, tool, ids)
            res == REST_bulk_status(stores, result_dir, tool, ids)
        IN /\ out.raised = "none"
           /\ CoversIds(out.value, ids)
           /\ \A id \in Range(ids) : out.value[id] = SFSS_status(Docs, tool, id)
           /\ res.code = 200
           /\ CoversIds(res.body, ids)
           /\ \A id \in Range(ids) : res.body[id] = SFSS_status(Docs, tool, id)

\* C23 for the endpoint of the server and a request that names an id
C23_RestBulkStatus ==
    \A tool \in Tools, ids \in BulkIds \ {<<>>} :
        LET res == REST_bulk_status(stores, result_dir, tool, ids)
        IN /\ res.s = stores
           /\ res.code = 200
           /\ CoversIds(res.body, ids)
           /\ \A id \in Range(ids) : res.body[id] = SFSS_status(Docs, tool, id)

\* C22: a bulk call of the client raises nothing and gives a value or an
\* error marker for every item: an item that fails (the result of a
\* document that is not DONE, a submit that raises) leaves the items that
\* succeed in the answer.
C22_BulkIsolation ==
    \A tool \in Tools :
        /\ \A ids \in BulkIds :
             LET out == Client_bulk_result(stores, result_dir, tool, ids)
             IN out.raised = "none" /\ CoversIds(out.value, ids)
        /\ \A ids \in BulkIds :
             LET out == Client_bulk_status(stores, result_dir, tool, ids)
             IN out.raised = "none" /\ CoversIds(out.value, ids)
        /\ \A docs \in BulkDocs :
             LET out == Client_bulk_process(stores, result_dir, tool, docs, None)
             IN out.raised = "none" /\ Len(out.value) = Len(docs)

\* the case of C22 for bulk_result: one id of the batch is DONE and has its
\* result, another is not DONE
C22_ResultOfTheOthers ==
    \A tool \in Tools, ids \in BulkIds :
        (\E i \in 1..Len(ids) :
            HTTPClient_result(stores, result_dir, tool, ids[i]).raised = "none")
        => Client_bulk_result(stores, result_dir, tool, ids).raised = "none"

-----------------------------------------------------------------------------
(* Two tools and one id: get_id returns a text that looks like an id        *)
(* unchanged, whatever the tool, so the same such text submitted for two    *)
(* tools names one row of Docs and one file per tool.                       *)

\* the documents submitted: a text that looks like an id for both tools, and
\* a plain text
InputsT ==
    {[tool |-> Tool_upper, doc |-> Doc_hash],
     [tool |-> Tool_alpino, doc |-> Doc_hash],
     [tool |-> Tool_upper, doc |-> Doc_y]}

SubmitCallsT ==
    {Call("process", i.tool, i.doc, NoTask, None, FALSE, FALSE) : i \in InputsT}

AddressedT == {[tool |-> i.tool, doc_id |-> get_id(i.tool, i.doc)] : i \in InputsT}

StoreResultCallsT ==
    {Call("store_result", a.tool, doc, NoTask, a.doc_id, FALSE, FALSE) :
        a \in AddressedT, doc \in Results}

StoreErrorCallsT ==
    {Call("store_error", a.tool, doc, NoTask, a.doc_id, FALSE, FALSE) :
        a \in AddressedT, doc \in Errors}

TM_process_T == \E f0 \in SubmitCallsT : CanCall(f0) /\ Do(SeqProc, f0)
TM_get_task_T == \E f0 \in GetTaskCalls : Do(SeqProc, f0)
TM_store_result_T == \E f0 \in StoreResultCallsT : Do(SeqProc, f0)
TM_store_error_T == \E f0 \in StoreErrorCallsT : Do(SeqProc, f0)

NextT ==
    \/ TM_process_T
    \/ TM_get_task_T
    \/ TM_store_result_T
    \/ TM_store_error_T

SpecT == Init /\ [][NextT]_vars

\* the tool a row of Docs was submitted for: the tool of its task
ToolOfRow(T, D, i) == T[D[i].task_id].tool

\* C31: get_task(tool) returns, and changes the status of, only documents
\* whose row was submitted for that tool.
C31_ToolIsolation ==
    \A f0 \in GetTaskCalls :
        LET out == CallNow(f0)
        IN /\ out.f.doc_id # None
              => \E i \in 1..Len(Docs) : /\ Docs[i].doc_id = out.f.doc_id
                                         /\ ToolOfRow(Task, Docs, i) = f0.tool
           /\ \A i \in 1..Len(Docs) :
                 out.s.Docs[i].status # Docs[i].status
                 => ToolOfRow(Task, Docs, i) = f0.tool

-----------------------------------------------------------------------------
(* Claims on the selection of get_task *)

\* the PENDING rows of a tool whose file get_task can read under that tool
ReadablePendingOf(tool) ==
    {i \in PendingOf(tool) :
        FSS_get_task(files, result_dir, tool, Docs[i].doc_id).doc_id # None}

\* C32: when a document submitted for a tool is PENDING and its file can be
\* read, get_task of that tool returns a document, whatever other PENDING
\* documents there are.
C32_NoHeadOfLineBlocking ==
    \A f0 \in GetTaskCalls :
        ReadablePendingOf(f0.tool) # {} => CallNow(f0).f.doc_id # None

\* C32, when the first PENDING row is one of the claiming tool: get_task
\* returns a document
C32_FirstRowOfTheTool ==
    \A f0 \in GetTaskCalls :
        (/\ ReadablePendingOf(f0.tool) # {}
         /\ Docs_get_by_status(Docs, "PENDING") \in ReadablePendingOf(f0.tool))
        => CallNow(f0).f.doc_id # None

-----------------------------------------------------------------------------
(* Progress of the worker loop: one worker of a tool, started without quit,  *)
(* whose requests all reach the server, while producers submit.              *)

\* a request of the worker that reached the server
Worker_get_task_up == Worker_get_task /\ worker'.last.raised # "ConnectionError"
Worker_store_result_up == Worker_store_result /\ worker'.last.raised # "ConnectionError"
Worker_store_error_up == Worker_store_error /\ worker'.last.raised # "ConnectionError"

InitP == InitW /\ ~worker.quit

\* the producers submit, and submit again, documents for the worker's tool
ProcessCallsP == {f0 \in ProcessCalls : f0.tool = worker.tool}

TM_process_P == \E f0 \in ProcessCallsP : CanCall(f0) /\ Do(SeqProc, f0)

\* line 40-61: the statement of the loop the worker is at
Worker_run ==
    \/ Worker_get_task_up
    \/ Worker_process
    \/ Worker_store_result_up
    \/ Worker_store_error_up

NextP ==
    \/ TM_process_P
    \/ Worker_run

\* the worker process is scheduled: the statement of the loop it is at is
\* eventually run. Nothing is asked of the producers.
FairP == WF_vars(Worker_run)

SpecP == InitP /\ [][NextP]_vars /\ FairP

\* the ids of the documents submitted for the worker's tool
WorkerIds == {a.doc_id : a \in {b \in Addressed : b.tool = Tool_upper}}

\* C33: every document submitted for the worker's tool is eventually DONE
\* or ERROR.
C33_Progress ==
    \A doc_id \in WorkerIds :
        (get_doc_status(Docs, doc_id) # "UNKNOWN")
        ~> (get_doc_status(Docs, doc_id) \in {"DONE", "ERROR"})

-----------------------------------------------------------------------------
(* Claims on fail, the frame of the operations and the integrity of the      *)
(* tables                                                                    *)

\* C34: a fail on a STARTED document returns without raising, whatever
\* fails on other documents came before it.
C34_FailIndependent ==
    \A f0 \in StoreErrorCalls :
        get_doc_status(Docs, f0.document_idx) = "STARTED"
        => CallNow(f0).f.raised = "none"

\* C34, as long as no fail has succeeded yet: the fail on a STARTED
\* document returns without raising
C34_FirstFail ==
    \A f0 \in StoreErrorCalls :
        (/\ get_doc_status(Docs, f0.document_idx) = "STARTED"
         /\ get_doc_status(Docs, Str_ERROR) = "UNKNOWN")
        => CallNow(f0).f.raised = "none"

\* the calls that submit, reset, claim, complete and fail
FrameCalls ==
    ProcessCalls \cup GetTaskCalls \cup StoreResultCalls \cup StoreErrorCalls

\* the doc_id a call is applied to, or returns: out is what the call did
DocOf(f0, out) ==
    CASE f0.op = "process" ->
           IF f0.document_idx = None THEN get_id(f0.tool, f0.doc) ELSE f0.document_idx
      [] f0.op = "get_task" -> out.f.doc_id
      [] OTHER -> f0.document_idx

\* C35: a submit, reset, claim, complete or fail applied to (or returning)
\* doc_id d leaves the rows of the other documents and their files as they
\* were, and adds no row and no file but for d.
C35_PerDocumentFrame ==
    \A f0 \in FrameCalls :
        LET out == CallNow(f0)
            d == DocOf(f0, out)
            D == out.s.Docs
            F == out.s.files
        IN /\ Len(D) >= Len(Docs)
           /\ \A i \in 1..Len(D) :
                 IF i <= Len(Docs)
                 THEN Docs[i].doc_id # d => D[i] = Docs[i]
                 ELSE D[i].doc_id = d
           /\ \A fn \in DOMAIN files :
                 fn.name # d => fn \in DOMAIN F /\ F[fn] = files[fn]
           /\ \A fn \in DOMAIN F \ DOMAIN files : fn.name = d

\* C35 witness: a complete has changed the row and the file of one document
\* while another document is PENDING with its submitted content
C35_Witness ==
    /\ ret.op = "store_result" /\ ret.raised = "none"
    /\ get_doc_status(Docs, ret.document_idx) = "DONE"
    /\ \E o \in hist.created :
          /\ o.doc_id # ret.document_idx
          /\ get_doc_status(Docs, o.doc_id) = "PENDING"
          /\ BlobIn(o, {o.doc})

\* the file of doc_id cannot be read by a claim of the tool: there is none
\* under the tool's directory, or the result directory is a relative one
Unreadable(tool, doc_id) ==
    \/ ~FSS_exists(files, result_dir, tool, doc_id)
    \/ result_dir = RelDir

\* C36: when the file of the PENDING document get_task selects cannot be
\* read, get_task returns (None, None) without raising and changes no row
\* and no file; the selected document is still PENDING.
C36_UnreadableClaim ==
    \A f0 \in GetTaskCalls :
        LET i == Docs_get_by_status(Docs, "PENDING")
            out == CallNow(f0)
        IN (i # 0 /\ Unreadable(f0.tool, Docs[i].doc_id))
           => /\ out.f.raised = "none"
              /\ out.f.doc_id = None /\ out.f.text = None
              /\ out.s = stores
              /\ out.s.Docs[i].status = "PENDING"

\* C36 witness: a get_task has returned (None, None) and the first PENDING
\* document, whose file it could not read, is PENDING
C36_Witness ==
    /\ ret.op = "get_task" /\ ret.raised = "none" /\ ret.doc_id = None
    /\ LET i == Docs_get_by_status(Docs, "PENDING")
       IN i # 0 /\ Unreadable(ret.tool, Docs[i].doc_id)

\* C37: in every state no two rows of Docs have the same doc_id, the
\* task_id of every row of Docs is the id of a row of Task, and the status
\* of every row of Docs is PENDING, STARTED, DONE or ERROR.
C37_StoreIntegrity ==
    /\ \A i, j \in 1..Len(Docs) : Docs[i].doc_id = Docs[j].doc_id => i = j
    /\ \A i \in 1..Len(Docs) : Docs[i].task_id \in 1..Len(Task)
    /\ \A i \in 1..Len(Docs) : Docs[i].status \in STATUS

\* C37 witness: a submit for a doc_id that has a row was rejected by the
\* unique constraint, after its Task row was inserted
C37_Witness ==
    /\ \E p \in Procs : frames[p].op = "process" /\ frames[p].raised = "IntegrityError"
    /\ Len(Docs) >= 1 /\ Len(Task) > Len(Docs)

=============================================================================
